---- MODULE Spec2Model ----
(***************************************************************************)
(* The scenario-to-artifact compiler of generate_compose.py: main() parses *)
(* scenario.toml, resolves every agent's image, validates the participant  *)
(* names and writes docker-compose.yml, a2a-scenario.toml and .env.example *)
(* into the working directory.                                             *)
(*                                                                         *)
(* Text is a sequence of one-character strings, so that str(), the         *)
(* placeholder regular expression and sorted() are computed as Python      *)
(* computes them.                                                          *)
(***************************************************************************)
EXTENDS Integers, Sequences, FiniteSets, TLC

\* ------------------------------------------------------------- bounds

\* Longest participants list of a scenario.
MaxParticipants == 2

\* Runs of the compiler against the same working directory.
MaxRuns == 2

\* Longest env string of the scan scenarios, counted in pieces of ScanPieces.
MaxPieces == 6

\* ---------------------------------------------------------- constants

COMPOSE_PATH == "docker-compose.yml"

A2A_SCENARIO_PATH == "a2a-scenario.toml"

ENV_PATH == ".env.example"

GREEN_AGENT_PORT == 9000

PARTICIPANT_PORT == 8001

\* DEFAULT_ENV_VARS = {"PYTHONUNBUFFERED": "1"}
DEFAULT_ENV_KEY == "PYTHONUNBUFFERED"

DEFAULT_ENV_VALUE == <<"1">>

\* The service names the templates spell out.
GREEN_SERVICE == "green-agent"

CLIENT_SERVICE == "agentbeats-client"

\* A key a dict does not hold.
Absent == "<absent>"

\* ---------------------------------------------------------------- text

\* The code point of a character: Python compares str by code point.
CodePoint(c) ==
  CASE c = "\n" -> 10
    [] c = " " -> 32
    [] c = "$" -> 36
    [] c = "'" -> 39
    [] c = "," -> 44
    [] c = "0" -> 48
    [] c = "1" -> 49
    [] c = "2" -> 50
    [] c = "3" -> 51
    [] c = "4" -> 52
    [] c = "5" -> 53
    [] c = "6" -> 54
    [] c = "7" -> 55
    [] c = "8" -> 56
    [] c = "9" -> 57
    [] c = ":" -> 58
    [] c = "=" -> 61
    [] c = "A" -> 65
    [] c = "B" -> 66
    [] c = "F" -> 70
    [] c = "T" -> 84
    [] c = "[" -> 91
    [] c = "]" -> 93
    [] c = "a" -> 97
    [] c = "e" -> 101
    [] c = "k" -> 107
    [] c = "l" -> 108
    [] c = "r" -> 114
    [] c = "s" -> 115
    [] c = "u" -> 117
    [] c = "{" -> 123
    [] c = "}" -> 125

\* s < t for two str values: the first differing character decides, a proper
\* prefix is smaller.
StrLess(s, t) ==
  \E i \in 1..(Len(t)) :
     /\ \A j \in 1..(i - 1) : j <= Len(s) /\ s[j] = t[j]
     /\ \/ i = Len(s) + 1
        \/ i <= Len(s) /\ CodePoint(s[i]) < CodePoint(t[i])

RECURSIVE Concat(_)
\* "".join(parts)
Concat(parts) ==
  IF parts = <<>> THEN <<>> ELSE Head(parts) \o Concat(Tail(parts))

RECURSIVE Join(_, _)
\* sep.join(parts)
Join(sep, parts) ==
  IF parts = <<>> THEN <<>>
  ELSE IF Len(parts) = 1 THEN parts[1]
  ELSE parts[1] \o sep \o Join(sep, Tail(parts))

Digit(d) == <<"0", "1", "2", "3", "4", "5", "6", "7", "8", "9">>[d + 1]

RECURSIVE StrInt(_)
\* str(n) of a non-negative int
StrInt(n) ==
  IF n < 10 THEN <<Digit(n)>> ELSE StrInt(n \div 10) \o <<Digit(n % 10)>>

\* repr(s) of a str without quote, backslash or unprintable character
Repr(s) == <<"'">> \o s \o <<"'">>

\* A TOML value of an env table: a string, an integer, a boolean, an array of
\* strings, or an inline table of one key holding a string.
StrValue(s) == [t |-> "str", s |-> s, n |-> 0, b |-> FALSE, els |-> <<>>]

IntValue(n) == [t |-> "int", s |-> <<>>, n |-> n, b |-> FALSE, els |-> <<>>]

BoolValue(b) == [t |-> "bool", s |-> <<>>, n |-> 0, b |-> b, els |-> <<>>]

ArrayValue(els) == [t |-> "array", s |-> <<>>, n |-> 0, b |-> FALSE, els |-> els]

TableValue(s) == [t |-> "table", s |-> s, n |-> 0, b |-> FALSE, els |-> <<>>]

\* str(value)
Str(v) ==
  CASE v.t = "str" -> v.s
    [] v.t = "int" -> StrInt(v.n)
    [] v.t = "bool" -> IF v.b THEN <<"T", "r", "u", "e">>
                       ELSE <<"F", "a", "l", "s", "e">>
    [] v.t = "array" ->
         <<"[">> \o Join(<<",", " ">>, [i \in 1..Len(v.els) |-> Repr(v.els[i])])
                 \o <<"]">>
    [] v.t = "table" ->
         <<"{">> \o Repr(<<"k">>) \o <<":", " ">> \o Repr(v.s) \o <<"}">>

\* The index of the first "}" of s at or after i, Len(s) + 1 when there is none.
RECURSIVE FirstClose(_, _)
FirstClose(s, i) ==
  IF i > Len(s) THEN Len(s) + 1
  ELSE IF s[i] = "}" THEN i
  ELSE FirstClose(s, i + 1)

\* re.compile(r'\$\{([^}]+)\}').findall(s), scanning from index i: the groups of
\* the non-overlapping matches, left to right.
RECURSIVE FindAllFrom(_, _)
FindAllFrom(s, i) ==
  IF i + 3 > Len(s) THEN <<>>
  ELSE IF s[i] = "$" /\ s[i + 1] = "{"
    THEN LET j == FirstClose(s, i + 2)
         IN  IF j <= Len(s) /\ j > i + 2
               THEN <<SubSeq(s, i + 2, j - 1)>> \o FindAllFrom(s, j + 1)
               ELSE FindAllFrom(s, i + 1)
  ELSE FindAllFrom(s, i + 1)

FindAll(s) == FindAllFrom(s, 1)

Range(f) == {f[i] : i \in DOMAIN f}

\* The smallest str of a non-empty set.
MinStr(S) == CHOOSE s \in S : \A t \in S : t = s \/ StrLess(s, t)

RECURSIVE SortedDescending(_)
\* sorted(S, reverse=True)
SortedDescending(S) ==
  IF S = {} THEN <<>>
  ELSE LET m == CHOOSE s \in S : \A t \in S : t = s \/ StrLess(t, s)
       IN  <<m>> \o SortedDescending(S \ {m})

RECURSIVE Sorted(_)
\* sorted(S) of a set of str
Sorted(S) ==
  IF S = {} THEN <<>>
  ELSE LET m == MinStr(S) IN <<m>> \o Sorted(S \ {m})

\* ------------------------------------------------------------ scenario

\* An agent table of scenario.toml. A key the table does not hold is Absent;
\* env is the env table's items, in order.
AgentEntry(name, image, agentbeats_id, env) ==
  [name |-> name, image |-> image, agentbeats_id |-> agentbeats_id, env |-> env]

\* The parsed scenario.toml: tomli.loads() of the file's text.
ScenarioData(green, participants) ==
  [green_agent |-> green, participants |-> participants, config |-> "config"]

\* What an image reference can be: written in the scenario, or the
\* docker_image the registry answers.
LiteralImage == "img:literal"

RegistryImage == "img:registry"

AgentId == "agent-id"

\* What requests.get(url, timeout=30), raise_for_status() and json() can come to:
\* a JSON object with docker_image, one of the three handled exceptions, or a
\* JSON object without docker_image.
Responses ==
  {"docker_image", "HTTPError", "JSONDecodeError", "RequestException",
   "no docker_image"}

\* fetch_agent_info(agentbeats_id): the info dict, or the exit.
fetch_agent_info(agentbeats_id, response) ==
  CASE response = "docker_image" ->
         [exit |-> FALSE, has_docker_image |-> TRUE, docker_image |-> RegistryImage]
    [] response = "no docker_image" ->
         [exit |-> FALSE, has_docker_image |-> FALSE, docker_image |-> Absent]
    [] OTHER ->
         [exit |-> TRUE, has_docker_image |-> FALSE, docker_image |-> Absent]

\* The outcome of resolve_image: the agent as the call leaves it, how the call
\* ended ("" when it returned) and the ids it looked up.
Outcome(agent, err, fetched) == [agent |-> agent, err |-> err, fetched |-> fetched]

\* resolve_image without the GITHUB_ACTIONS check: a literal image is accepted
\* in CI too.
resolve_image_without_ci_check(agent, github_actions, response) ==
  LET has_image == agent.image # Absent
      has_id == agent.agentbeats_id # Absent
  IN  IF has_image /\ has_id THEN Outcome(agent, "ConflictingDeclaration", <<>>)
      ELSE IF has_image THEN Outcome(agent, "", <<>>)
      ELSE IF has_id THEN
        LET info == fetch_agent_info(agent.agentbeats_id, response)
        IN  IF info.exit
              THEN Outcome(agent, "LookupFailure", <<agent.agentbeats_id>>)
            ELSE IF ~info.has_docker_image
              THEN Outcome(agent, "KeyError", <<agent.agentbeats_id>>)
            ELSE Outcome([agent EXCEPT !.image = info.docker_image], "",
                         <<agent.agentbeats_id>>)
      ELSE Outcome(agent, "MissingDeclaration", <<>>)

\* resolve_image that asks the registry a second time when the lookup fails.
resolve_image_retrying(agent, github_actions, response) ==
  LET has_image == agent.image # Absent
      has_id == agent.agentbeats_id # Absent
  IN  IF has_image /\ has_id THEN Outcome(agent, "ConflictingDeclaration", <<>>)
      ELSE IF has_image THEN
        IF github_actions THEN Outcome(agent, "ImageNotAllowedInCI", <<>>)
        ELSE Outcome(agent, "", <<>>)
      ELSE IF has_id THEN
        LET info == fetch_agent_info(agent.agentbeats_id, response)
        IN  IF info.exit
              THEN Outcome(agent, "LookupFailure",
                           <<agent.agentbeats_id, agent.agentbeats_id>>)
            ELSE IF ~info.has_docker_image
              THEN Outcome(agent, "KeyError", <<agent.agentbeats_id>>)
            ELSE Outcome([agent EXCEPT !.image = info.docker_image], "",
                         <<agent.agentbeats_id>>)
      ELSE Outcome(agent, "MissingDeclaration", <<>>)

\* resolve_image(agent, name), with GITHUB_ACTIONS set or not and the registry's
\* response to a lookup.
resolve_image(agent, github_actions, response) ==
  LET has_image == agent.image # Absent
      has_id == agent.agentbeats_id # Absent
  IN  IF has_image /\ has_id THEN Outcome(agent, "ConflictingDeclaration", <<>>)
      ELSE IF has_image THEN
        IF github_actions THEN Outcome(agent, "ImageNotAllowedInCI", <<>>)
        ELSE Outcome(agent, "", <<>>)
      ELSE IF has_id THEN
        LET info == fetch_agent_info(agent.agentbeats_id, response)
        IN  IF info.exit
              THEN Outcome(agent, "LookupFailure", <<agent.agentbeats_id>>)
            ELSE IF ~info.has_docker_image
              THEN Outcome(agent, "KeyError", <<agent.agentbeats_id>>)
            ELSE Outcome([agent EXCEPT !.image = info.docker_image], "",
                         <<agent.agentbeats_id>>)
      ELSE Outcome(agent, "MissingDeclaration", <<>>)

\* names = [p.get("name") for p in participants]
ParticipantNames(participants) ==
  [i \in 1..Len(participants) |-> participants[i].name]

\* duplicates = [name for name in set(names) if names.count(name) > 1]
Duplicates(names) ==
  {n \in Range(names) : Cardinality({i \in DOMAIN names : names[i] = n}) > 1}

\* ------------------------------------------------------------ renderers

\* format_env_vars(env_dict): the lines "- key=value" of {**DEFAULT_ENV_VARS,
\* **env_dict}: the default key first, with the value env_dict gives it if any.
format_env_vars(env) ==
  LET given == SelectSeq(env, LAMBDA e : e.k = DEFAULT_ENV_KEY)
      rest == SelectSeq(env, LAMBDA e : e.k # DEFAULT_ENV_KEY)
      first == [key |-> DEFAULT_ENV_KEY,
                value |-> IF given = <<>> THEN DEFAULT_ENV_VALUE
                          ELSE Str(given[Len(given)].v)]
  IN  <<first>> \o [i \in 1..Len(rest) |-> [key |-> rest[i].k, value |-> Str(rest[i].v)]]

\* format_depends_on(services, healthy_services): one entry per service, in order.
format_depends_on(services, healthy_services) ==
  [i \in 1..Len(services) |->
     [service |-> services[i],
      condition |-> IF services[i] \in healthy_services THEN "service_healthy"
                    ELSE "service_started"]]

\* PARTICIPANT_TEMPLATE.format(name, image, env): a service block without
\* depends_on and without healthcheck.
ParticipantBlock(p) ==
  [name |-> p.name, container_name |-> p.name, image |-> p.image,
   environment |-> format_env_vars(p.env)]

\* A renderer's result: the text (a sequence holding the rendered document), or
\* the KeyError of p["name"].
Rendered(text) == [raised |-> FALSE, text |-> text]

Raised == [raised |-> TRUE, text |-> <<>>]

\* generate_docker_compose(scenario)
generate_docker_compose(scenario) ==
  LET green == scenario.green_agent
      participants == scenario.participants
      participant_names == ParticipantNames(participants)
      all_services == <<GREEN_SERVICE>> \o participant_names
  IN  IF \E i \in DOMAIN participants : participants[i].name = Absent THEN Raised
      ELSE Rendered(<<
        [green |->
           [name |-> GREEN_SERVICE, container_name |-> GREEN_SERVICE,
            image |-> green.image,
            environment |-> format_env_vars(green.env),
            healthcheck_port |-> GREEN_AGENT_PORT,
            depends_on |-> format_depends_on(participant_names, {})],
         participants |->
           [i \in 1..Len(participants) |-> ParticipantBlock(participants[i])],
         client |->
           [name |-> CLIENT_SERVICE, container_name |-> CLIENT_SERVICE,
            depends_on |-> format_depends_on(all_services, {GREEN_SERVICE})]]>>)

\* generate_a2a_scenario that gives the participants the evaluator's port.
generate_a2a_scenario_one_port(scenario) ==
  LET participants == scenario.participants
  IN  IF \E i \in DOMAIN participants : participants[i].name = Absent THEN Raised
      ELSE Rendered(<<
        [green_agent |-> [host |-> GREEN_SERVICE, port |-> GREEN_AGENT_PORT],
         participants |->
           [i \in 1..Len(participants) |->
              [role |-> participants[i].name,
               host |-> participants[i].name,
               port |-> GREEN_AGENT_PORT,
               agentbeats_id |-> participants[i].agentbeats_id]],
         config |-> scenario.config]>>)

\* generate_a2a_scenario(scenario)
generate_a2a_scenario(scenario) ==
  LET participants == scenario.participants
  IN  IF \E i \in DOMAIN participants : participants[i].name = Absent THEN Raised
      ELSE Rendered(<<
        [green_agent |-> [host |-> GREEN_SERVICE, port |-> GREEN_AGENT_PORT],
         participants |->
           [i \in 1..Len(participants) |->
              [role |-> participants[i].name,
               host |-> participants[i].name,
               port |-> PARTICIPANT_PORT,
               agentbeats_id |-> participants[i].agentbeats_id]],
         config |-> scenario.config]>>)

\* Every env value of the scenario: the evaluator's, then each participant's.
EnvValues(scenario) ==
  {e.v : e \in Range(scenario.green_agent.env)}
    \cup UNION {{e.v : e \in Range(scenario.participants[i].env)} :
                  i \in DOMAIN scenario.participants}

\* The set secrets when only the values that are strings are scanned.
SecretsOfStrings(scenario) ==
  UNION {Range(FindAll(v.s)) : v \in {w \in EnvValues(scenario) : w.t = "str"}}

\* The set secrets of generate_env_file.
Secrets(scenario) == UNION {Range(FindAll(Str(v))) : v \in EnvValues(scenario)}

\* generate_env_file(scenario): "" when there is no placeholder, else the sorted
\* names, each followed by "=", joined by and ended with a line break.
generate_env_file(scenario) ==
  LET secrets == Secrets(scenario)
      sorted == Sorted(secrets)
      lines == [i \in 1..Len(sorted) |-> sorted[i] \o <<"=">>]
  IN  IF secrets = {} THEN <<>> ELSE Join(<<"\n">>, lines) \o <<"\n">>

\* --------------------------------------------------------------- inputs

\* How an agent table declares its image: the keys it holds.
Declarations == {"image", "agentbeats_id", "both", "neither"}

Declared(name, declaration, env) ==
  AgentEntry(name,
             IF declaration \in {"image", "both"} THEN LiteralImage ELSE Absent,
             IF declaration \in {"agentbeats_id", "both"} THEN AgentId ELSE Absent,
             env)

\* The names a participant table can hold; Absent: the table has no name key.
NameChoices == {"purple-1", "purple-2", GREEN_SERVICE, Absent}

Text(pieces) == Concat(pieces)

\* An env table of one key holding value v.
Env1(key, v) == <<[k |-> key, v |-> v]>>

\* The env tables of the evaluator in the structural scenarios.
GreenEnvs == {<<>>, Env1("API_KEY", StrValue(<<"$", "{", "A", "}">>))}

SeqsUpTo(S, n) == UNION {[1..m -> S] : m \in 0..n}

\* scenario.toml as the run finds it: the file may not exist.
InputFile(data) == [exists |-> TRUE, data |-> data]

NoScenario ==
  [exists |-> FALSE, data |-> ScenarioData(Declared(Absent, "neither", <<>>), <<>>)]

\* The structural scenarios: every declaration of the evaluator and of up to
\* MaxParticipants participants, every name choice.
StructScenarios ==
  {ScenarioData(Declared(Absent, d, e), ps) :
     d \in Declarations, e \in GreenEnvs,
     ps \in SeqsUpTo({Declared(n, pd, <<>>) : n \in NameChoices, pd \in Declarations},
                     MaxParticipants)}

\* The scan scenarios: the evaluator's env holds one string of up to MaxPieces
\* pieces, or one value that is no string; an optional participant holds one
\* more value.
ScanPieces == {<<"$", "{">>, <<"}">>, <<"A">>, <<"$">>}

ScanStrings == {Text(ps) : ps \in SeqsUpTo(ScanPieces, MaxPieces)}

PlaceholderA == <<"$", "{", "A", "}">>

PlaceholderB == <<"$", "{", "B", "}">>

NonStrings ==
  {IntValue(5), IntValue(80), BoolValue(TRUE), BoolValue(FALSE),
   ArrayValue(<<PlaceholderA>>),
   ArrayValue(<<PlaceholderB, PlaceholderA>>),
   ArrayValue(<<<<"$", "{">>, PlaceholderA>>),
   ArrayValue(<<<<"A">>, <<"}">>>>),
   TableValue(PlaceholderB),
   TableValue(<<"$", "{">>)}

OtherValues ==
  {StrValue(PlaceholderA), StrValue(PlaceholderB \o PlaceholderA),
   StrValue(<<"A">>), IntValue(5), ArrayValue(<<PlaceholderB>>)}

ScanScenarios ==
  {ScenarioData(Declared(Absent, "image", Env1("API_KEY", v)), ps) :
     v \in {StrValue(s) : s \in ScanStrings} \cup NonStrings,
     ps \in {<<>>} \cup {<<Declared("purple-1", "image", Env1("TOKEN", w))>> :
                           w \in OtherValues}}

\* What the operator does to scenario.toml between two runs: nothing, or
\* deleting every env table.
ClearEnv(data) ==
  [data EXCEPT
     !.green_agent.env = <<>>,
     !.participants = [i \in DOMAIN data.participants |->
                         [data.participants[i] EXCEPT !.env = <<>>]]]

Edits(file) == {file, [file EXCEPT !.data = ClearEnv(file.data)]}

\* ---------------------------------------------------------------- state

VARIABLES
  input,       \* scenario.toml
  github_actions,  \* os.environ.get("GITHUB_ACTIONS") is truthy
  disk,        \* the working directory: each output path's file
  pc,          \* where main() is
  scenario,    \* the dict parse_scenario works on
  idx,         \* the participant the loop of parse_scenario is at
  err,         \* how the run ended, "" while it runs and when it succeeds
  resolved,    \* the resolve_image calls of this run, in order
  lookups,     \* the fetch_agent_info calls of this run, in order
  disk0,       \* the working directory as this run found it
  runs         \* the runs started so far

vars ==
  <<input, github_actions, disk, pc, scenario, idx, err, resolved, lookups,
    disk0, runs>>

Paths == {COMPOSE_PATH, A2A_SCENARIO_PATH, ENV_PATH}

Missing == [exists |-> FALSE, text |-> <<>>]

File(text) == [exists |-> TRUE, text |-> text]

EmptyDir == [p \in Paths |-> Missing]

Begin(files, flags) ==
  /\ github_actions \in flags
  /\ input \in files
  /\ disk = EmptyDir
  /\ disk0 = EmptyDir
  /\ pc = "main"
  /\ scenario = NoScenario.data
  /\ idx = 0
  /\ err = ""
  /\ resolved = <<>>
  /\ lookups = <<>>
  /\ runs = 1

\* A fresh working directory, any structural scenario or none, in CI or not.
Init == Begin({InputFile(d) : d \in StructScenarios} \cup {NoScenario}, BOOLEAN)

\* A fresh working directory and a scan scenario, outside CI (the scan scenarios
\* declare literal images).
InitScan == Begin({InputFile(d) : d \in ScanScenarios}, {FALSE})

\* sys.exit(1), or an exception no one catches: the run is over.
Exit(e) ==
  /\ pc' = "exit"
  /\ err' = e

\* One resolve_image call of parse_scenario, on the evaluator (who = 0) or on
\* participant who, as the run's record keeps it.
Call(who, before, out) ==
  [who |-> who, has_image |-> before.image # Absent,
   has_id |-> before.agentbeats_id # Absent, image_before |-> before.image,
   ci |-> github_actions, err |-> out.err, image_after |-> out.agent.image,
   fetched |-> Len(out.fetched)]

Lookup(who, out) ==
  [i \in 1..Len(out.fetched) |->
     [who |-> who, id |-> out.fetched[i], failed |-> out.err # ""]]

\* main(), to the call of parse_scenario: the scenario file must exist;
\* parse_scenario reads and parses it.
Main ==
  /\ pc = "main"
  /\ IF ~input.exists
       THEN Exit("InputNotFound") /\ UNCHANGED scenario
       ELSE pc' = "resolve_green" /\ scenario' = input.data /\ UNCHANGED err
  /\ UNCHANGED <<input, github_actions, disk, idx, resolved, lookups, disk0, runs>>

\* parse_scenario: resolve_image(green, "green_agent")
ResolveGreen ==
  /\ pc = "resolve_green"
  /\ \E response \in Responses :
       LET out == resolve_image(scenario.green_agent, github_actions, response)
       IN  /\ resolved' = Append(resolved, Call(0, scenario.green_agent, out))
           /\ lookups' = lookups \o Lookup(0, out)
           /\ IF out.err # ""
                THEN Exit(out.err) /\ UNCHANGED scenario
                ELSE /\ scenario' = [scenario EXCEPT !.green_agent = out.agent]
                     /\ pc' = "check_names"
                     /\ UNCHANGED err
  /\ UNCHANGED <<input, github_actions, disk, idx, disk0, runs>>

\* parse_scenario: the duplicate check. ', '.join(duplicates) raises TypeError
\* when the duplicate is None, the name of the tables without a name key.
CheckNames ==
  /\ pc = "check_names"
  /\ LET duplicates == Duplicates(ParticipantNames(scenario.participants))
     IN  IF duplicates # {}
           THEN Exit(IF Absent \in duplicates THEN "TypeError" ELSE "DuplicateName")
                /\ UNCHANGED idx
           ELSE /\ pc' = IF scenario.participants = <<>> THEN "write_compose"
                         ELSE "resolve_participants"
                /\ idx' = 1
                /\ UNCHANGED err
  /\ UNCHANGED <<input, github_actions, disk, scenario, resolved, lookups, disk0, runs>>

\* parse_scenario: one turn of the loop over participants.
ResolveParticipant ==
  /\ pc = "resolve_participants"
  /\ \E response \in Responses :
       LET before == scenario.participants[idx]
           out == resolve_image(before, github_actions, response)
       IN  /\ resolved' = Append(resolved, Call(idx, before, out))
           /\ lookups' = lookups \o Lookup(idx, out)
           /\ IF out.err # ""
                THEN Exit(out.err) /\ UNCHANGED <<scenario, idx>>
                ELSE /\ scenario' = [scenario EXCEPT !.participants[idx] = out.agent]
                     /\ idx' = idx + 1
                     /\ pc' = IF idx = Len(scenario.participants) THEN "write_compose"
                              ELSE "resolve_participants"
                     /\ UNCHANGED err
  /\ UNCHANGED <<input, github_actions, disk, disk0, runs>>

\* with open(COMPOSE_PATH, "w") as f: f.write(generate_docker_compose(scenario)):
\* open() creates or truncates the file before the renderer is called.
WriteCompose ==
  /\ pc = "write_compose"
  /\ LET r == generate_docker_compose(scenario)
     IN  /\ disk' = [disk EXCEPT ![COMPOSE_PATH] = File(r.text)]
         /\ IF r.raised THEN Exit("KeyError")
            ELSE pc' = "write_a2a" /\ UNCHANGED err
  /\ UNCHANGED <<input, github_actions, scenario, idx, resolved, lookups, disk0, runs>>

\* with open(A2A_SCENARIO_PATH, "w") as f: f.write(generate_a2a_scenario(scenario))
WriteA2A ==
  /\ pc = "write_a2a"
  /\ LET r == generate_a2a_scenario(scenario)
     IN  /\ disk' = [disk EXCEPT ![A2A_SCENARIO_PATH] = File(r.text)]
         /\ IF r.raised THEN Exit("KeyError")
            ELSE pc' = "write_env" /\ UNCHANGED err
  /\ UNCHANGED <<input, github_actions, scenario, idx, resolved, lookups, disk0, runs>>

\* env_content = generate_env_file(scenario); the file is written when the
\* content is not empty. main() returns.
WriteEnv ==
  /\ pc = "write_env"
  /\ LET env_content == generate_env_file(scenario)
     IN  disk' = IF env_content # <<>>
                   THEN [disk EXCEPT ![ENV_PATH] = File(env_content)]
                   ELSE disk
  /\ pc' = "done"
  /\ UNCHANGED <<input, github_actions, scenario, idx, err, resolved, lookups, disk0, runs>>

\* The operator edits scenario.toml, or leaves it, and runs the compiler again
\* in the same directory: a new process.
Rerun ==
  /\ pc \in {"done", "exit"}
  /\ runs < MaxRuns
  /\ input' \in Edits(input)
  /\ runs' = runs + 1
  /\ pc' = "main"
  /\ scenario' = NoScenario.data
  /\ idx' = 0
  /\ err' = ""
  /\ resolved' = <<>>
  /\ lookups' = <<>>
  /\ disk0' = disk
  /\ UNCHANGED <<github_actions, disk>>

Next ==
  \/ Main
  \/ ResolveGreen
  \/ CheckNames
  \/ ResolveParticipant
  \/ WriteCompose
  \/ WriteA2A
  \/ WriteEnv
  \/ Rerun

Spec == Init /\ [][Next]_vars

\* One run of the compiler.
NextScan ==
  \/ Main
  \/ ResolveGreen
  \/ CheckNames
  \/ ResolveParticipant
  \/ WriteCompose
  \/ WriteA2A
  \/ WriteEnv

SpecScan == InitScan /\ [][NextScan]_vars

\* --------------------------------------------------------------- claims

\* The run is past the named step of main().
Parsed == pc \in {"write_compose", "write_a2a", "write_env", "done"}

ComposeWritten == pc \in {"write_a2a", "write_env", "done"}

BothWritten == pc \in {"write_env", "done"}

\* The documents this run wrote.
Compose == disk[COMPOSE_PATH].text[1]

A2A == disk[A2A_SCENARIO_PATH].text[1]

\* Agent who of scenario.toml: the evaluator is 0, participant i is i.
InputAgent(who) ==
  IF who = 0 THEN input.data.green_agent ELSE input.data.participants[who]

IdOnly(agent) == agent.image = Absent /\ agent.agentbeats_id # Absent

\* A depends_on block as the set of its (service, condition) entries.
DependencySet(depends_on) ==
  {<<depends_on[i].service, depends_on[i].condition>> : i \in DOMAIN depends_on}

BlockNames(blocks) == {blocks[i].name : i \in DOMAIN blocks}

\* The names the pattern finds in a text, stated on the text: a name lies
\* between "${" and the first "}" after it, is not empty, and starts at the
\* leftmost "${" that reaches this "}" without crossing another "}".
Opens(s, i, j) ==
  /\ i + 2 < j
  /\ s[i] = "$"
  /\ s[i + 1] = "{"
  /\ \A m \in (i + 2)..(j - 1) : s[m] # "}"

Placeholders(s) ==
  {SubSeq(s, i + 2, j - 1) : <<i, j>> \in
     {ij \in (1..Len(s)) \X (1..Len(s)) :
        /\ s[ij[2]] = "}"
        /\ Opens(s, ij[1], ij[2])
        /\ \A h \in 1..(ij[1] - 1) : ~Opens(s, h, ij[2])}}

RECURSIVE SplitLines(_, _)
\* The lines of a text in which every line ends with a line break; cur is the
\* line being read.
SplitLines(text, cur) ==
  IF text = <<>> THEN (IF cur = <<>> THEN <<>> ELSE <<cur>>)
  ELSE IF Head(text) = "\n" THEN <<cur>> \o SplitLines(Tail(text), <<>>)
  ELSE SplitLines(Tail(text), Append(cur, Head(text)))

\* The lines of .env.example, none when the file does not exist.
EnvLines == SplitLines(disk[ENV_PATH].text, <<>>)

\* The name a line NAME= gives: the line without its last character.
NameOf(line) == SubSeq(line, 1, Len(line) - 1)

\* The names .env.example lists.
EnvNames == {NameOf(l) : l \in Range(EnvLines)}

\* C1: a run that aborts leaves every output file as it found it; no file is
\* created, truncated or written unless validation, resolution and rendering
\* have all succeeded.
C1_AbortLeavesDirectory == pc = "exit" => disk = disk0

\* C2: when a participant name occurs more than once, no resolve_image call and
\* no lookup happens, for the evaluator or anyone, and the run ends with the
\* duplicate-name error.
C2_DuplicateAbortsBeforeResolution ==
  (input.exists /\ Duplicates(ParticipantNames(input.data.participants)) \ {Absent} # {})
    => /\ resolved = <<>>
       /\ lookups = <<>>
       /\ pc = "exit" => err = "DuplicateName"

\* C3: in the rendered topology the client depends on exactly the evaluator
\* (healthy) and each participant (started), the evaluator on exactly each
\* participant (started), and a participant block has no depends_on.
C3_DependencySets ==
  ComposeWritten =>
    LET started == {<<n, "service_started">> : n \in BlockNames(Compose.participants)}
    IN  /\ DependencySet(Compose.client.depends_on)
             = {<<Compose.green.name, "service_healthy">>} \cup started
        /\ DependencySet(Compose.green.depends_on) = started
        /\ \A i \in DOMAIN Compose.participants :
             "depends_on" \notin DOMAIN Compose.participants[i]

\* C4: what resolve_image does is decided by the keys the agent holds: both,
\* ConflictingDeclaration; neither, MissingDeclaration; image alone in CI,
\* ImageNotAllowedInCI; image alone outside CI, success with the image as
\* written and no lookup; agentbeats_id alone, exactly one lookup whose
\* docker_image becomes the image. A failed call ends the run, which has written
\* no file: the directory is as the run found it, empty if it was empty.
C4_ResolveOutcome ==
  \A i \in DOMAIN resolved :
    LET c == resolved[i]
        declared == InputAgent(c.who)
    IN  /\ c.has_image = (declared.image # Absent)
        /\ c.has_id = (declared.agentbeats_id # Absent)
        /\ c.ci = github_actions
        /\ (c.has_image /\ c.has_id)
             => c.err = "ConflictingDeclaration" /\ c.fetched = 0
        /\ (~c.has_image /\ ~c.has_id)
             => c.err = "MissingDeclaration" /\ c.fetched = 0
        /\ (c.has_image /\ ~c.has_id /\ c.ci)
             => c.err = "ImageNotAllowedInCI" /\ c.fetched = 0
        /\ (c.has_image /\ ~c.has_id /\ ~c.ci)
             => c.err = "" /\ c.fetched = 0 /\ c.image_after = declared.image
        /\ (~c.has_image /\ c.has_id)
             => /\ c.fetched = 1
                /\ c.err \in {"", "LookupFailure", "KeyError"}
                /\ c.err = "" => c.image_after = RegistryImage
        /\ c.err # ""
             => /\ i = Len(resolved)
                /\ pc = "exit"
                /\ err = c.err
                /\ disk = disk0
                /\ disk0 = EmptyDir => \A p \in Paths : ~disk[p].exists

\* C4's case: outside CI, a literal image and a lookup succeeded and a third
\* agent, declared both ways, ended the run in an empty directory.
C4_Witness ==
  /\ pc = "exit"
  /\ disk0 = EmptyDir
  /\ Len(resolved) = 3
  /\ resolved[1].has_image /\ ~resolved[1].has_id /\ resolved[1].err = ""
  /\ ~resolved[2].has_image /\ resolved[2].has_id /\ resolved[2].err = ""
  /\ resolved[2].image_after = RegistryImage
  /\ resolved[3].err = "ConflictingDeclaration"

\* C5: lookups are issued in declaration order (the evaluator, then the
\* participants as listed), at most once per agent, for the agents declared by
\* agentbeats_id alone and for each of them the run has come to; a failed
\* lookup is the last one, ends the run, and the run has written no file.
C5_LookupOrder ==
  /\ \A i, j \in DOMAIN lookups : i < j => lookups[i].who < lookups[j].who
  /\ \A i \in DOMAIN lookups :
       /\ IdOnly(InputAgent(lookups[i].who))
       /\ lookups[i].id = InputAgent(lookups[i].who).agentbeats_id
       /\ lookups[i].failed => i = Len(lookups) /\ pc = "exit" /\ disk = disk0
  /\ {lookups[i].who : i \in DOMAIN lookups}
       = {resolved[i].who : i \in {k \in DOMAIN resolved : IdOnly(InputAgent(resolved[k].who))}}
  /\ Parsed =>
       {lookups[i].who : i \in DOMAIN lookups}
         = {w \in 0..Len(input.data.participants) : IdOnly(InputAgent(w))}

\* C5's case: the evaluator's lookup succeeded, the first participant's failed,
\* and a second participant declared by agentbeats_id was never looked up.
C5_Witness ==
  /\ pc = "exit"
  /\ Len(lookups) = 2
  /\ lookups[1].who = 0 /\ ~lookups[1].failed
  /\ lookups[2].who = 1 /\ lookups[2].failed
  /\ Len(input.data.participants) = 2
  /\ IdOnly(input.data.participants[2])

\* C6 as stated: an env value that is no string never adds a name to the
\* placeholder file: the names are those of the string values.
C6_NonStringsIgnored ==
  pc = "done" =>
    EnvNames = UNION {Placeholders(v.s) : v \in {w \in EnvValues(input.data) : w.t = "str"}}

\* C6 amended: a number or a boolean adds no name; an array or an inline table
\* is scanned in its text form, like a string, and adds the names found there.
C6_ScalarsIgnored ==
  pc = "done" =>
    EnvNames = UNION {Placeholders(Str(v)) :
                        v \in {w \in EnvValues(input.data) : w.t \notin {"int", "bool"}}}

\* C6's case: the scenario holds a number and an array, and a name of the
\* placeholder file comes from the array alone.
C6_Witness ==
  /\ pc = "done"
  /\ \E v, w \in EnvValues(input.data) :
       /\ v.t = "int"
       /\ w.t = "array"
       /\ EnvValues(input.data) = {v, w}
       /\ EnvNames = {<<"B">>}

\* C7: .env.example holds exactly one NAME= line per distinct placeholder name
\* found in the text of any env value of the evaluator or of a participant, in
\* ascending order; when there is none, the run writes no placeholder file.
C7_PlaceholderFile ==
  pc = "done" =>
    LET names == UNION {Placeholders(Str(v)) : v \in EnvValues(input.data)}
    IN  /\ names = {} => disk[ENV_PATH] = disk0[ENV_PATH] /\ ~disk[ENV_PATH].exists
        /\ names # {} =>
             /\ disk[ENV_PATH].exists
             /\ disk[ENV_PATH].text
                  = Concat([i \in DOMAIN EnvLines |-> EnvLines[i] \o <<"\n">>])
             /\ Len(EnvLines) = Cardinality(names)
             /\ Range(EnvLines) = {n \o <<"=">> : n \in names}
             /\ \A i \in 1..(Len(EnvLines) - 1) :
                  StrLess(NameOf(EnvLines[i]), NameOf(EnvLines[i + 1]))

\* C7's case: one value holds two names, the other agent's value one of them
\* again, and the file lists the two names once each, in order.
C7_Witness ==
  /\ pc = "done"
  /\ EnvLines = <<<<"A", "=">>, <<"B", "=">>>>
  /\ Len(input.data.participants) = 1
  /\ FindAll(Str(input.data.green_agent.env[1].v)) = <<<<"A">>>>
  /\ FindAll(Str(input.data.participants[1].env[1].v)) = <<<<"B">>, <<"A">>>>

\* C8: the agent-scenario file and the topology agree: the evaluator's endpoint
\* names the evaluator's service and its health probe's port; there is one
\* participant block per participant service, in the same order, whose role and
\* endpoint host are the service's name and whose port is PARTICIPANT_PORT.
C8_ArtifactsAgree ==
  BothWritten =>
    /\ A2A.green_agent.host = Compose.green.name
    /\ A2A.green_agent.port = Compose.green.healthcheck_port
    /\ Len(A2A.participants) = Len(Compose.participants)
    /\ \A i \in DOMAIN A2A.participants :
         /\ A2A.participants[i].role = Compose.participants[i].name
         /\ A2A.participants[i].host = Compose.participants[i].name
         /\ A2A.participants[i].port = PARTICIPANT_PORT
         /\ A2A.participants[i].port # A2A.green_agent.port

\* C8's case: a run that wrote both files for two participants.
C8_Witness ==
  /\ pc = "done"
  /\ Len(Compose.participants) = 2
  /\ A2A.participants[1].role = "purple-2"
  /\ A2A.participants[2].role = "purple-1"

\* C9: the rendered topology has N + 2 service blocks of pairwise distinct names,
\* so that a dependency with healthy gating names the evaluator's block alone.
C9_DistinctServices ==
  ComposeWritten =>
    LET names == {Compose.green.name, Compose.client.name}
                   \cup BlockNames(Compose.participants)
    IN  /\ Cardinality(names) = Len(Compose.participants) + 2
        /\ \A i \in DOMAIN Compose.client.depends_on :
             Compose.client.depends_on[i].condition = "service_healthy"
               => Compose.client.depends_on[i].service
                    \notin BlockNames(Compose.participants)

\* C10: once a run has succeeded, the three files describe its scenario:
\* .env.example lists the scenario's placeholders and does not exist when the
\* scenario has none.
C10_FilesDescribeLatestRun ==
  pc = "done" =>
    /\ disk[COMPOSE_PATH] = File(generate_docker_compose(scenario).text)
    /\ disk[A2A_SCENARIO_PATH] = File(generate_a2a_scenario(scenario).text)
    /\ disk[ENV_PATH] = IF Secrets(scenario) = {} THEN Missing
                        ELSE File(generate_env_file(scenario))

====
